---- MODULE Spec2Model ----
(***************************************************************************)
(* Model of src/src/lib.rs: the lazily initialised shared pool POOL        *)
(* (lazy_static over Arc<Mutex<Pool>>) and the two call wrappers select    *)
(* and execute.  Each call is a task whose position (pc) advances at the   *)
(* await points of the source.                                             *)
(***************************************************************************)
EXTENDS Integers, Sequences, FiniteSets, TLC

\* ---------------------------------------------------------------- bounds
NumCalls == 3          \* callers of select/execute in one process
MaxConns == 2          \* connections the pool may have leased at once
NumDataCalls == 1      \* callers of the specification that varies the data

Calls == 1..NumCalls
DataCalls == {c \in Calls : c <= NumDataCalls /\ c <= MaxConns}
Conns == 1..MaxConns
None  == 0             \* "no call" / "no connection" / "no pool"

VARIABLES
  env,          \* value of DATABASE_URL seen by env::var (Absent or chars)
  once,         \* state of the lazy_static Once guarding POOL
  constructed,  \* number of times Pool::new has run
  poolInst,     \* identity of the Pool stored in POOL (None before init)
  config,       \* the ConnectionConfig handed to Pool::new
  idle,         \* connections of the pool that are not leased
  gate,         \* holder of the tokio Mutex around the Pool, or None
  waiting,      \* calls queued inside the pool waiting for a connection
  pc,           \* position of each call
  op,           \* "select" or "execute"
  input,        \* [q, p, T]: query text, bound parameter, target type
  handle,       \* Pool identity each call obtained from POOL.clone()
  lease,        \* connection held by each call (the local conn), or None
  tries,        \* number of get_conn() calls each call has made
  sent,         \* number of times each call's query went to the database
  rows,         \* result set the database returned to the call, if any
  outcome,      \* how the call ended
  seen          \* the DATABASE_URL value the initializer of POOL read

vars == <<env, once, constructed, poolInst, config, idle, gate, waiting,
          pc, op, input, handle, lease, tries, sent, rows, outcome, seen>>

poolVars == <<once, constructed, poolInst, config, seen>>
callVars == <<op, input>>

\* ------------------------------------------------ the database (external)
\* A result row is a sequence of typed column values.
IntCol(n) == [t |-> "int", v |-> n]
StrCol(x) == [t |-> "str", v |-> x]
NullCol == [t |-> "null", v |-> 0]

\* Contents of the users table, in the order the database returns them.
Users ==
  << <<IntCol(1), StrCol("Alice")>>, <<IntCol(2), StrCol("Bob")>>, <<IntCol(3), NullCol>> >>

NoParams == -1         \* params_map = None

\* Target record types T of select: (i32, String) and a 3-field record.
T2 == <<"int", "str">>
T3 == <<"int", "str", "str">>

\* The calls the callers make: query text, bound :id (or NoParams), T.
Inputs ==
  { [q |-> "byId", p |-> 1,        T |-> T2],
    [q |-> "byId", p |-> 2,        T |-> T2],
    [q |-> "byId", p |-> 4,        T |-> T2],
    [q |-> "upTo", p |-> 2,        T |-> T2],
    [q |-> "upTo", p |-> 3,        T |-> T2],
    [q |-> "byId", p |-> 1,        T |-> T3],
    [q |-> "byId", p |-> NoParams, T |-> T2],
    [q |-> "bad",  p |-> NoParams, T |-> T2] }

\* The inputs of the select and of the execute calls that race for the pool.
RaceInputs ==
  { [q |-> "byId", p |-> 1, T |-> T2] }
RaceUpdates ==
  { [q |-> "byId", p |-> 2, T |-> T2] }

\* The WHERE clause of a query applied to one row.
Matches(q, p, row) ==
  IF q = "byId" THEN row[1].v = p ELSE row[1].v <= p

\* The database rejects a malformed statement, and the driver rejects a
\* statement with a named placeholder when no parameters are bound.
Rejected(q, p) == q = "bad" \/ p = NoParams

RECURSIVE Filter(_, _, _)
Filter(q, p, tbl) ==
  IF tbl = <<>> THEN <<>>
  ELSE IF Matches(q, p, Head(tbl))
       THEN <<Head(tbl)>> \o Filter(q, p, Tail(tbl))
       ELSE Filter(q, p, Tail(tbl))

\* What the database answers to an accepted query.
ResultRows(in) == Filter(in.q, in.p, Users)

\* ------------------------------------------------------------ row mapping
\* FromRow for a tuple type: arity and every column type must agree.
Convertible(row, T) ==
  /\ Len(row) = Len(T)
  /\ \A i \in 1..Len(row) : row[i].t = T[i]

\* T::from_row(row): the record of the row's column values.
from_row(row) == [i \in 1..Len(row) |-> row[i].v]

\* Variant of exec_map that pushes each record in front of the earlier ones.
RECURSIVE exec_map_rev(_, _, _)
exec_map_rev(rs, T, acc) ==
  IF rs = <<>> THEN [panic |-> FALSE, val |-> acc]
  ELSE IF ~Convertible(Head(rs), T) THEN [panic |-> TRUE, val |-> acc]
  ELSE exec_map_rev(Tail(rs), T, <<from_row(Head(rs))>> \o acc)

\* exec_map's fold over the rows with the closure |row| T::from_row(row):
\* from_row panics on a row it cannot convert, which unwinds the call.
RECURSIVE exec_map(_, _, _)
exec_map(rs, T, acc) ==
  IF rs = <<>> THEN [panic |-> FALSE, val |-> acc]
  ELSE IF ~Convertible(Head(rs), T) THEN [panic |-> TRUE, val |-> acc]
  ELSE exec_map(Tail(rs), T, Append(acc, from_row(Head(rs))))

\* ---------------------------------------------------------- call outcomes
Pending        == [kind |-> "Pending",   err |-> "",  val |-> <<>>]
Ok(v)          == [kind |-> "Ok",        err |-> "",  val |-> v]
Err(e)         == [kind |-> "Err",       err |-> e,   val |-> <<>>]
Panic(m)       == [kind |-> "Panic",     err |-> m,   val |-> <<>>]
Cancelled      == [kind |-> "Cancelled", err |-> "",  val |-> <<>>]

\* ------------------------------------------------- configuration (DATABASE_URL)
\* A string is a sequence of one-character strings.  env is the value
\* env::var("DATABASE_URL") yields once dotenv() has been applied.
Absent   == [set |-> FALSE, val |-> <<>>]
Value(s) == [set |-> TRUE,  val |-> s]

UrlFull    == <<"m", ":", "/", "/", "u", ":", "p", "@", "h", "/", "d">>
UrlNoCreds == <<"m", ":", "/", "/", "h", "/", "d">>
UrlNoHost  == <<"m", ":", "/", "d">>
UrlBad     == <<"h", "/", "d">>
UrlSlashes == <<"m", ":", "/", "/", "h", "/", "/", "d">>

EnvValues == {Absent, Value(UrlFull), Value(UrlNoCreds), Value(UrlNoHost),
              Value(UrlBad), Value(UrlSlashes)}
RaceEnv   == {Absent, Value(UrlFull)}

\* First position of ch in s, or 0.
RECURSIVE IndexFrom(_, _, _)
IndexFrom(s, ch, i) ==
  IF i > Len(s) THEN 0
  ELSE IF s[i] = ch THEN i
  ELSE IndexFrom(s, ch, i + 1)

IndexOf(s, ch) == IndexFrom(s, ch, 1)

\* Last position of ch in s, or 0.
RECURSIVE LastIndexFrom(_, _, _)
LastIndexFrom(s, ch, i) ==
  IF i = 0 THEN 0
  ELSE IF s[i] = ch THEN i
  ELSE LastIndexFrom(s, ch, i - 1)

LastIndexOf(s, ch) == LastIndexFrom(s, ch, Len(s))

SchemeChar(ch) == ch \notin {":", "/", "@", " "}

NoStr == <<" ">>      \* marks an Option<&str> that is None

\* url::Url::parse for a non-special scheme: scheme ":" then either
\* "//" authority path, or a path only (no host).
UrlParse(s) ==
  LET colon  == IndexOf(s, ":")
      scheme == SubSeq(s, 1, colon - 1)
      rest   == SubSeq(s, colon + 1, Len(s))
      hasAuth == Len(rest) >= 2 /\ rest[1] = "/" /\ rest[2] = "/"
      after  == SubSeq(rest, 3, Len(rest))
      slash  == IndexOf(after, "/")
      auth   == IF slash = 0 THEN after ELSE SubSeq(after, 1, slash - 1)
      path   == IF ~hasAuth THEN rest
                ELSE IF slash = 0 THEN <<>>
                ELSE SubSeq(after, slash, Len(after))
      at     == LastIndexOf(auth, "@")
      info   == SubSeq(auth, 1, at - 1)
      hostp  == SubSeq(auth, at + 1, Len(auth))
      pcolon == IndexOf(info, ":")
      user   == IF at = 0 THEN <<>>
                ELSE IF pcolon = 0 THEN info
                ELSE SubSeq(info, 1, pcolon - 1)
      pass   == IF at = 0 \/ pcolon = 0 THEN NoStr
                ELSE SubSeq(info, pcolon + 1, Len(info))
      bad    == \/ colon <= 1
                \/ \E i \in 1..Len(scheme) : ~SchemeChar(scheme[i])
                \/ hasAuth /\ at > 0 /\ hostp = <<>>
                \/ hasAuth /\ \E i \in 1..Len(hostp) : hostp[i] = " "
  IN IF bad THEN [ok |-> FALSE, user |-> <<>>, pass |-> NoStr,
                  host |-> NoStr, path |-> <<>>]
     ELSE [ok |-> TRUE, user |-> user, pass |-> pass,
           host |-> IF hasAuth /\ hostp # <<>> THEN hostp ELSE NoStr,
           path |-> path]

\* str::trim_start_matches('/')
RECURSIVE trim_start_matches(_)
trim_start_matches(s) ==
  IF s # <<>> /\ Head(s) = "/" THEN trim_start_matches(Tail(s)) ELSE s

NoConfig == [user |-> <<>>, password |-> <<>>, host |-> <<>>,
             database |-> <<>>]

\* Variant of Opts that takes the URL path as the database name.
OptsRawPath(u) ==
  [user     |-> u.user,
   password |-> IF u.pass = NoStr THEN <<>> ELSE u.pass,
   host     |-> u.host,
   database |-> u.path]

\* The OptsBuilder the initializer of POOL builds from the parsed URL.
Opts(u) ==
  [user     |-> u.user,
   password |-> IF u.pass = NoStr THEN <<>> ELSE u.pass,
   host     |-> u.host,
   database |-> trim_start_matches(u.path)]

\* Variant of InitPanic that tolerates an absent DATABASE_URL.
InitPanicTolerant(e) ==
  IF ~e.set THEN ""
  ELSE IF ~UrlParse(e.val).ok THEN "Failed to parse DATABASE_URL"
  ELSE IF UrlParse(e.val).host = NoStr THEN "DATABASE_URL must have a host"
  ELSE ""

\* Why the initializer of POOL panics on this environment, or "" .
InitPanic(e) ==
  IF ~e.set THEN "DATABASE_URL must be set"
  ELSE IF ~UrlParse(e.val).ok THEN "Failed to parse DATABASE_URL"
  ELSE IF UrlParse(e.val).host = NoStr THEN "DATABASE_URL must have a host"
  ELSE ""

\* The initializer's result for each value DATABASE_URL can have, tabulated.
PanicByEnv == [e \in EnvValues |-> InitPanic(e)]
OptsByEnv ==
  [e \in EnvValues |-> IF InitPanic(e) # "" THEN NoConfig
                       ELSE Opts(UrlParse(e.val))]

\* ------------------------------------------------------------------ state
NoRows   == [some |-> FALSE, v |-> <<>>]
Some(rs) == [some |-> TRUE,  v |-> rs]
NotRead  == [set |-> FALSE, val |-> <<"?">>]
NoInput  == [q |-> "", p |-> NoParams, T |-> <<>>]

Terminal == {"Released", "Failed"}
InFlight == {c \in Calls : pc[c] \notin Terminal \cup {"Idle"}}

\* The stage of the call in the terms of the state machine
\* Idle -> Acquiring -> Executing -> Mapping -> Released | Failed.
Stage(c) ==
  CASE pc[c] \in {"Deref", "Init", "Lock", "GetConn"} -> "Acquiring"
    [] pc[c] = "Exec" -> "Executing"
    [] pc[c] = "Map"  -> "Mapping"
    [] OTHER          -> pc[c]

InitWith(envs) ==
  /\ env \in envs
  /\ once = "incomplete"
  /\ constructed = 0
  /\ poolInst = None
  /\ config = NoConfig
  /\ seen = NotRead
  /\ idle = {}
  /\ gate = None
  /\ waiting = [c \in Calls |-> FALSE]
  /\ pc = [c \in Calls |-> "Idle"]
  /\ op = [c \in Calls |-> ""]
  /\ input = [c \in Calls |-> NoInput]
  /\ handle = [c \in Calls |-> None]
  /\ lease = [c \in Calls |-> None]
  /\ tries = [c \in Calls |-> 0]
  /\ sent = [c \in Calls |-> 0]
  /\ rows = [c \in Calls |-> NoRows]
  /\ outcome = [c \in Calls |-> Pending]

\* ----------------------------------------------------- drops at scope exit
\* Drop for Conn hands the connection back to its pool, however the call
\* ends: "ok" or "err" (return), "unwind" (panic), "cancel" (future dropped).
\* Variants of IdleAfterDrop that keep the connection out of the pool when
\* the call returns an error, respectively when it is cancelled.
IdleAfterDropLeakErr(c, how) ==
  IF lease[c] = None \/ how = "err" THEN idle ELSE idle \cup {lease[c]}

IdleAfterDropLeakCancel(c, how) ==
  IF lease[c] = None \/ how = "cancel" THEN idle ELSE idle \cup {lease[c]}

IdleAfterDrop(c, how) ==
  IF lease[c] = None THEN idle ELSE idle \cup {lease[c]}

\* Variant of GateAfterDrop in which the guard outlives the call that ends.
GateAfterDropHeld(c) == gate

\* Drop for MutexGuard opens the gate.
GateAfterDrop(c) == IF gate = c THEN None ELSE gate

\* Variant of Finish in which giving the connection back has to pass the gate.
FinishThroughGate(c, how, st, out) ==
  /\ gate \in {None, c}
  /\ pc' = [pc EXCEPT ![c] = st]
  /\ outcome' = [outcome EXCEPT ![c] = out]
  /\ idle' = IdleAfterDrop(c, how)
  /\ lease' = [lease EXCEPT ![c] = None]
  /\ gate' = GateAfterDrop(c)
  /\ waiting' = [waiting EXCEPT ![c] = FALSE]

\* The call c ends: its locals (guard, conn, pending get_conn) are dropped.
Finish(c, how, st, out) ==
  /\ pc' = [pc EXCEPT ![c] = st]
  /\ outcome' = [outcome EXCEPT ![c] = out]
  /\ idle' = IdleAfterDrop(c, how)
  /\ lease' = [lease EXCEPT ![c] = None]
  /\ gate' = GateAfterDrop(c)
  /\ waiting' = [waiting EXCEPT ![c] = FALSE]

\* ---------------------------------------------------------------- actions
\* A caller invokes select or execute (lines 38 and 61).
Call(c, o, in) ==
  /\ pc[c] = "Idle"
  /\ pc' = [pc EXCEPT ![c] = "Deref"]
  /\ op' = [op EXCEPT ![c] = o]
  /\ input' = [input EXCEPT ![c] = in]
  /\ UNCHANGED <<env, poolVars, idle, gate, waiting, handle, lease, tries,
                 sent, rows, outcome>>

select(c, ins)  == \E in \in ins : Call(c, "select", in)
execute(c, ins) == \E in \in ins : Call(c, "execute", in)

\* env::set_var("DATABASE_URL", ..) by the host process (lines 102, 112).
set_var(envs) ==
  /\ \E u \in envs \ {Absent, env} : env' = u
  /\ UNCHANGED <<poolVars, idle, gate, waiting, pc, callVars, handle, lease,
                 tries, sent, rows, outcome>>

\* Variant of PoolEnter that also admits a caller while the initializer runs.
PoolEnterUnguarded(c) ==
  /\ pc[c] = "Deref"
  /\ once \in {"incomplete", "running"}
  /\ once' = "running"
  /\ pc' = [pc EXCEPT ![c] = "Init"]
  /\ UNCHANGED <<env, constructed, poolInst, config, seen, idle, gate,
                 waiting, callVars, handle, lease, tries, sent, rows, outcome>>

\* POOL.clone(), first use (lines 42, 62): the Once of lazy_static lets one
\* caller in to run the initializer; callers arriving while it runs block.
PoolEnter(c) ==
  /\ pc[c] = "Deref"
  /\ once = "incomplete"
  /\ once' = "running"
  /\ pc' = [pc EXCEPT ![c] = "Init"]
  /\ UNCHANGED <<env, constructed, poolInst, config, seen, idle, gate,
                 waiting, callVars, handle, lease, tries, sent, rows, outcome>>

\* The initializer of POOL (lines 13-35) run by the caller that entered.
PoolInit(c) ==
  /\ pc[c] = "Init"
  /\ seen' = env
  /\ IF PanicByEnv[env] # ""
     THEN /\ once' = "poisoned"
          /\ Finish(c, "unwind", "Failed", Panic(PanicByEnv[env]))
          /\ UNCHANGED <<constructed, poolInst, config, handle>>
     ELSE /\ config' = OptsByEnv[env]
          /\ constructed' = constructed + 1
          /\ poolInst' = constructed + 1
          /\ idle' = Conns
          /\ once' = "complete"
          /\ handle' = [handle EXCEPT ![c] = poolInst']
          /\ pc' = [pc EXCEPT ![c] = "Lock"]
          /\ UNCHANGED <<gate, waiting, lease, outcome>>
  /\ UNCHANGED <<env, callVars, tries, sent, rows>>

\* POOL.clone() once the Once is complete: the stored Arc is cloned.
PoolClone(c) ==
  /\ pc[c] = "Deref"
  /\ once = "complete"
  /\ handle' = [handle EXCEPT ![c] = poolInst]
  /\ pc' = [pc EXCEPT ![c] = "Lock"]
  /\ UNCHANGED <<env, poolVars, idle, gate, waiting, callVars, lease, tries,
                 sent, rows, outcome>>

\* Variant of PoolPoisoned in which a use after a failed initialization runs
\* the initializer again.
PoolPoisonedRetry(c) ==
  /\ pc[c] = "Deref"
  /\ once = "poisoned"
  /\ once' = "running"
  /\ pc' = [pc EXCEPT ![c] = "Init"]
  /\ UNCHANGED <<env, constructed, poolInst, config, seen, idle, gate,
                 waiting, callVars, handle, lease, tries, sent, rows, outcome>>

\* POOL.clone() after the initializer panicked: the Once is poisoned.
PoolPoisoned(c) ==
  /\ pc[c] = "Deref"
  /\ once = "poisoned"
  /\ Finish(c, "unwind", "Failed", Panic("Once instance has previously been poisoned"))
  /\ UNCHANGED <<env, poolVars, callVars, handle, tries, sent, rows>>

\* pool.lock().await resolves: the caller holds the gate and calls get_conn().
lock(c) ==
  /\ pc[c] = "Lock"
  /\ gate = None
  /\ gate' = c
  /\ tries' = [tries EXCEPT ![c] = @ + 1]
  /\ pc' = [pc EXCEPT ![c] = "GetConn"]
  /\ UNCHANGED <<env, poolVars, idle, waiting, callVars, handle, lease,
                 sent, rows, outcome>>

\* Variant of get_conn in which the guard outlives the let statement.
get_conn_keep_guard(c) ==
  /\ pc[c] = "GetConn"
  /\ \E k \in idle :
       /\ idle' = idle \ {k}
       /\ lease' = [lease EXCEPT ![c] = k]
  /\ gate' = gate
  /\ waiting' = [waiting EXCEPT ![c] = FALSE]
  /\ pc' = [pc EXCEPT ![c] = "Exec"]
  /\ UNCHANGED <<env, poolVars, callVars, handle, tries, sent, rows, outcome>>

\* Variant of get_conn in which the pool hands out a connection and still
\* lists it as available.
get_conn_still_idle(c) ==
  /\ pc[c] = "GetConn"
  /\ \E k \in idle :
       /\ idle' = idle
       /\ lease' = [lease EXCEPT ![c] = k]
  /\ gate' = None
  /\ waiting' = [waiting EXCEPT ![c] = FALSE]
  /\ pc' = [pc EXCEPT ![c] = "Exec"]
  /\ UNCHANGED <<env, poolVars, callVars, handle, tries, sent, rows, outcome>>

\* get_conn().await yields a connection: the call holds its lease.  The
\* guard returned by lock() is a temporary of the let statement, dropped
\* when the statement ends, before the query is executed.
get_conn(c) ==
  /\ pc[c] = "GetConn"
  /\ \E k \in idle :
       /\ idle' = idle \ {k}
       /\ lease' = [lease EXCEPT ![c] = k]
  /\ gate' = None
  /\ waiting' = [waiting EXCEPT ![c] = FALSE]
  /\ pc' = [pc EXCEPT ![c] = "Exec"]
  /\ UNCHANGED <<env, poolVars, callVars, handle, tries, sent, rows, outcome>>

\* Variant of get_conn_err in which the error is dropped and the call goes on.
get_conn_err_ignored(c) ==
  /\ pc[c] = "GetConn"
  /\ idle # {}
  /\ gate' = None
  /\ pc' = [pc EXCEPT ![c] = "Exec"]
  /\ UNCHANGED <<env, poolVars, idle, waiting, callVars, handle, lease,
                 tries, sent, rows, outcome>>

\* Variant of get_conn_err in which the call tries the acquisition again.
get_conn_err_retry(c) ==
  /\ pc[c] = "GetConn"
  /\ idle # {}
  /\ gate' = None
  /\ pc' = [pc EXCEPT ![c] = "Lock"]
  /\ UNCHANGED <<env, poolVars, idle, waiting, callVars, handle, lease,
                 tries, sent, rows, outcome>>

\* get_conn().await yields an error (the server cannot be reached): `?`
\* returns it to the caller.
get_conn_err(c) ==
  /\ pc[c] = "GetConn"
  /\ idle # {}
  /\ Finish(c, "err", "Failed", Err("ConnectionFailed"))
  /\ UNCHANGED <<env, poolVars, callVars, handle, tries, sent, rows>>

\* get_conn() polled while every connection is leased: the pool queues the
\* caller, which stays suspended (holding the gate) until one is returned.
get_conn_wait(c) ==
  /\ pc[c] = "GetConn"
  /\ idle = {}
  /\ ~waiting[c]
  /\ waiting' = [waiting EXCEPT ![c] = TRUE]
  /\ UNCHANGED <<env, poolVars, idle, gate, pc, callVars, handle, lease,
                 tries, sent, rows, outcome>>

\* exec_map / exec_drop yields an error: the database rejected the
\* statement, or the connection broke during the round trip (which can
\* happen to any statement).  The Err is boxed and returned.
exec_err(c) ==
  /\ pc[c] = "Exec"
  /\ sent' = [sent EXCEPT ![c] = @ + 1]
  /\ Finish(c, "err", "Failed", Err("QueryFailed"))
  /\ UNCHANGED <<env, poolVars, callVars, handle, tries, rows>>

\* Variant of exec_rows that gives the connection back before the rows are mapped.
exec_rows_drop_conn(c) ==
  /\ pc[c] = "Exec"
  /\ op[c] = "select"
  /\ ~Rejected(input[c].q, input[c].p)
  /\ sent' = [sent EXCEPT ![c] = @ + 1]
  /\ rows' = [rows EXCEPT ![c] = Some(ResultRows(input[c]))]
  /\ pc' = [pc EXCEPT ![c] = "Map"]
  /\ idle' = IdleAfterDrop(c, "ok")
  /\ lease' = [lease EXCEPT ![c] = None]
  /\ UNCHANGED <<env, poolVars, gate, waiting, callVars, handle, tries,
                 outcome>>

\* Variant of exec_rows in which the statement runs with the parameters that
\* an earlier statement of another call bound.
exec_rows_stale(c) ==
  /\ pc[c] = "Exec"
  /\ op[c] = "select"
  /\ ~Rejected(input[c].q, input[c].p)
  /\ sent' = [sent EXCEPT ![c] = @ + 1]
  /\ \E d \in Calls :
       /\ d = c \/ rows[d].some
       /\ rows' = [rows EXCEPT
                    ![c] = Some(ResultRows([input[c] EXCEPT !.p = input[d].p]))]
  /\ pc' = [pc EXCEPT ![c] = "Map"]
  /\ UNCHANGED <<env, poolVars, idle, gate, waiting, callVars, handle, lease,
                 tries, outcome>>

\* select: the database accepts the query and answers with its rows; the
\* call goes on to map them (exec_map, lines 46-48 and 54).
exec_rows(c) ==
  /\ pc[c] = "Exec"
  /\ op[c] = "select"
  /\ ~Rejected(input[c].q, input[c].p)
  /\ sent' = [sent EXCEPT ![c] = @ + 1]
  /\ rows' = [rows EXCEPT ![c] = Some(ResultRows(input[c]))]
  /\ pc' = [pc EXCEPT ![c] = "Map"]
  /\ UNCHANGED <<env, poolVars, idle, gate, waiting, callVars, handle, lease,
                 tries, outcome>>

\* Variant of exec_drop that keeps the answered rows and maps them as select does.
exec_drop_mapped(c) ==
  /\ pc[c] = "Exec"
  /\ op[c] = "execute"
  /\ ~Rejected(input[c].q, input[c].p)
  /\ sent' = [sent EXCEPT ![c] = @ + 1]
  /\ rows' = [rows EXCEPT ![c] = Some(ResultRows(input[c]))]
  /\ pc' = [pc EXCEPT ![c] = "Map"]
  /\ UNCHANGED <<env, poolVars, idle, gate, waiting, callVars, handle, lease,
                 tries, outcome>>

\* execute: the database accepts the query; exec_drop discards whatever
\* rows it answers and the call returns Ok(()) (lines 66-67, 70-71).
exec_drop(c) ==
  /\ pc[c] = "Exec"
  /\ op[c] = "execute"
  /\ ~Rejected(input[c].q, input[c].p)
  /\ sent' = [sent EXCEPT ![c] = @ + 1]
  /\ rows' = [rows EXCEPT ![c] = Some(ResultRows(input[c]))]
  /\ Finish(c, "ok", "Released", Ok(<<>>))
  /\ UNCHANGED <<env, poolVars, callVars, handle, tries>>

\* select: every row is mapped with T::from_row; the call returns
\* Ok(records), or unwinds when from_row panics on a row.
map_rows(c) ==
  /\ pc[c] = "Map"
  /\ LET r == exec_map(rows[c].v, input[c].T, <<>>)
     IN IF r.panic
        THEN Finish(c, "unwind", "Failed",
                    Panic("Couldn't convert Row to the target type"))
        ELSE Finish(c, "ok", "Released", Ok(r.val))
  /\ UNCHANGED <<env, poolVars, callVars, handle, tries, sent, rows>>

\* The task running the call is cancelled at one of its await points: the
\* future is dropped together with its locals.
cancel(c) ==
  /\ pc[c] \in {"Lock", "GetConn", "Exec", "Map"}
  /\ Finish(c, "cancel", "Failed", Cancelled)
  /\ UNCHANGED <<env, poolVars, callVars, handle, tries, sent, rows>>

\* The caller has taken the result (or the task is gone): nothing of the
\* call remains, and the caller may call select or execute again.
done(c) ==
  /\ pc[c] \in Terminal
  /\ pc' = [pc EXCEPT ![c] = "Idle"]
  /\ op' = [op EXCEPT ![c] = ""]
  /\ input' = [input EXCEPT ![c] = NoInput]
  /\ handle' = [handle EXCEPT ![c] = None]
  /\ tries' = [tries EXCEPT ![c] = 0]
  /\ sent' = [sent EXCEPT ![c] = 0]
  /\ rows' = [rows EXCEPT ![c] = NoRows]
  /\ outcome' = [outcome EXCEPT ![c] = Pending]
  /\ UNCHANGED <<env, poolVars, idle, gate, waiting, lease>>

Step(cs, ins, upds) ==
  \E c \in cs :
       \/ select(c, ins)
       \/ execute(c, upds)
       \/ PoolEnter(c)
       \/ PoolInit(c)
       \/ PoolClone(c)
       \/ PoolPoisoned(c)
       \/ lock(c)
       \/ get_conn(c)
       \/ get_conn_err(c)
       \/ exec_err(c)
       \/ exec_rows(c)
       \/ exec_drop(c)
       \/ map_rows(c)
       \/ cancel(c)
       \/ done(c)

\* More callers than connections racing for the pool, on few inputs, in an
\* environment that is set (or not) before the first call.
Init == InitWith(RaceEnv)
Next ==
  \/ Step(Calls, RaceInputs, RaceUpdates)
  \/ \E c \in Calls : get_conn_wait(c)
Spec == Init /\ [][Next]_vars

\* No more calls than connections (the pool is never exhausted, so no
\* call is ever queued by get_conn), on every input and every configuration,
\* which the host process may change at any time.
\* The scheduling the runtime guarantees to a call that is under way: the
\* Once lets a blocked caller through when the initializer has ended; the
\* tokio Mutex serves its waiters in FIFO order, so no waiter is overtaken
\* for ever; a pending get_conn is woken when a connection is back in the
\* pool; a query that runs gets its answer, and the mapping of the rows
\* ends.  Nothing obliges a caller to call, to take its result or to cancel.
Awaited(c) ==
  \/ PoolEnter(c) \/ PoolInit(c) \/ PoolClone(c)
  \/ get_conn(c)
  \/ exec_err(c) \/ exec_rows(c)
  \/ map_rows(c)

Progress(c) == WF_vars(Awaited(c)) /\ SF_vars(lock(c))

\* Select calls racing for a pool whose initialization succeeds, each
\* awaited by its caller until it returns.
LiveInit == InitWith({Value(UrlFull)})

LiveNext ==
  \E c \in Calls :
    \/ select(c, RaceInputs)
    \/ PoolEnter(c) \/ PoolInit(c) \/ PoolClone(c)
    \/ lock(c) \/ get_conn(c) \/ get_conn_wait(c) \/ get_conn_err(c)
    \/ exec_err(c) \/ exec_rows(c) \/ map_rows(c)
    \/ done(c)

LiveSpec == LiveInit /\ [][LiveNext]_vars /\ \A c \in Calls : Progress(c)

DataInit == InitWith(EnvValues)
DataNext ==
  \/ Step(DataCalls, Inputs, Inputs)
  \/ set_var(EnvValues)
DataSpec == DataInit /\ [][DataNext]_vars

\* ================================================================ claims

\* ---- C1: pool initialisation is once-only under concurrency: Pool::new
\* runs at most once (exactly once as soon as any caller holds the handle)
\* and every caller that obtained the handle obtained the same Pool.
C1_InitOnce ==
  /\ constructed <= 1
  /\ \A c \in Calls :
       handle[c] # None => /\ constructed = 1
                           /\ handle[c] = poolInst
  /\ \A c, d \in Calls :
       (handle[c] # None /\ handle[d] # None) => handle[c] = handle[d]

\* All callers went through first use and hold the one Pool.
C1_Witness ==
  /\ constructed = 1
  /\ \A c \in Calls : handle[c] # None /\ handle[c] = poolInst

\* ---- C2: no connection leak: the step by which a call returns (Ok, query
\* error or connection error) puts the connection the call leased back among
\* the pool's available ones, and once no call is in flight the available
\* connections are all those of the pool, as before the calls.
Returns(c) ==
  /\ pc[c] \notin Terminal
  /\ pc'[c] \in Terminal
  /\ outcome'[c].kind \in {"Ok", "Err"}

C2_NoLeak ==
  [][ /\ \A c \in Calls :
           Returns(c) => /\ idle' = idle \cup ({lease[c]} \ {None})
                         /\ lease'[c] = None
      /\ (poolInst' # None /\ InFlight' = {}) => idle' = Conns ]_vars

\* A select whose query failed after the lease was acquired has returned
\* and every connection is available again.
C2_Witness ==
  \E c \in Calls :
    /\ outcome[c] = Err("QueryFailed")
    /\ sent[c] = 1
    /\ tries[c] = 1
    /\ idle = Conns

\* ---- C3: the gate is never held by a call that is executing its query or
\* mapping its rows (two calls executing at once: see the witness).
C3_GateOnlyAcquiring ==
  \A c \in Calls : Stage(c) \in {"Executing", "Mapping"} => gate # c

\* Two different calls execute their queries on their own leases at once.
C3_Witness ==
  \E c, d \in Calls :
    /\ c # d
    /\ pc[c] = "Exec" /\ pc[d] = "Exec"
    /\ lease[c] # None /\ lease[d] # None /\ lease[c] # lease[d]
    /\ gate = None

\* A select call that has ended otherwise than by cancellation.
Ended(c) ==
  /\ op[c] = "select"
  /\ pc[c] \in Terminal
  /\ outcome[c].kind # "Cancelled"

\* The database answered the call with a row that does not fit its type T.
Mismatch(c) ==
  /\ rows[c].some
  /\ \E i \in 1..Len(rows[c].v) : ~Convertible(rows[c].v[i], input[c].T)

\* ---- C4: a select that received a row not matching the target type ends
\* by returning the error value MappingFailed (and no list of records).
C4_MappingError ==
  \A c \in Calls :
    (Ended(c) /\ Mismatch(c)) => outcome[c] = Err("MappingFailed")

\* ---- C5: errors are never an empty success: select returns Ok(empty)
\* exactly when the query succeeded with zero rows, and returns Err whenever
\* acquisition, execution or mapping failed.
C5_ErrNotEmpty ==
  \A c \in Calls :
    Ended(c) =>
      /\ outcome[c] = Ok(<<>>) <=> (rows[c].some /\ rows[c].v = <<>>)
      /\ (tries[c] = 1 /\ sent[c] = 0) => outcome[c].kind = "Err"
      /\ (sent[c] = 1 /\ ~rows[c].some) => outcome[c].kind = "Err"
      /\ Mismatch(c) => outcome[c].kind = "Err"

\* ---- C6: on success select returns one record per result row of the
\* database, in the database's order, each holding the row's column values;
\* the row (1, "Alice") alone yields the single record (1, "Alice").
C6_RowsInOrder ==
  \A c \in Calls :
    (op[c] = "select" /\ outcome[c].kind = "Ok") =>
      LET rs == rows[c].v
          v  == outcome[c].val
      IN /\ rows[c].some
         /\ Len(v) = Len(rs)
         /\ \A i \in 1..Len(rs) :
              /\ Len(v[i]) = Len(rs[i])
              /\ \A j \in 1..Len(rs[i]) : v[i][j] = rs[i][j].v
         /\ (input[c].q = "byId" /\ input[c].p = 1) =>
              v = << <<1, "Alice">> >>

\* A select returned the two records of a two-row result, in order.
C6_Witness ==
  \E c \in DataCalls :
    /\ op[c] = "select"
    /\ outcome[c] = Ok(<< <<1, "Alice">>, <<2, "Bob">> >>)

\* ---- C7: every call passes through Idle, Acquiring, Executing, Mapping
\* (select only), Released in that order, or leaves it by entering Failed;
\* it executes only while holding a lease, maps only after its query was
\* executed, and gives its lease up only when it ends.  (Released and
\* Failed end the call: the caller's next call starts again from Idle.)
StageOrder(s, t, o) ==
  \/ s = t
  \/ s \in {"Released", "Failed"} /\ t = "Idle"
  \/ s = "Idle" /\ t = "Acquiring"
  \/ s = "Acquiring" /\ t = "Executing"
  \/ s = "Executing" /\ t = "Mapping" /\ o = "select"
  \/ s = "Executing" /\ t = "Released" /\ o = "execute"
  \/ s = "Mapping" /\ t = "Released"
  \/ s \in {"Acquiring", "Executing", "Mapping"} /\ t = "Failed"

C7_StageOrder ==
  [][ \A c \in Calls :
        /\ StageOrder(Stage(c), Stage(c)', op'[c])
        /\ Stage(c)' = "Executing" => (lease'[c] # None /\ sent'[c] = 0)
        /\ Stage(c)' = "Mapping" =>
             (lease'[c] # None /\ sent'[c] = 1 /\ rows'[c].some)
        /\ Stage(c)' = "Released" => (sent'[c] = 1 /\ rows'[c].some)
        /\ (lease[c] # None /\ lease'[c] = None) =>
             (Stage(c) \in {"Executing", "Mapping"}
              /\ Stage(c)' \in {"Released", "Failed"}) ]_vars

\* A select went through every stage and was released.
C7_Witness ==
  \E c \in Calls :
    /\ op[c] = "select"
    /\ pc[c] = "Released"
    /\ tries[c] = 1 /\ sent[c] = 1 /\ rows[c].some

\* ---- C8: cancellation does not leak: the step that cancels a call puts
\* the connection it leased back into the pool and leaves it neither the gate
\* nor a place among the pool's waiters, and every connection that is not
\* available is leased to a call still in flight.
C8_CancelNoLeak ==
  [][ /\ \A c \in Calls :
           (outcome[c] # Cancelled /\ outcome'[c] = Cancelled) =>
             /\ idle' = idle \cup ({lease[c]} \ {None})
             /\ lease'[c] = None
             /\ gate' # c
             /\ ~waiting'[c]
      /\ poolInst' # None =>
           \A k \in Conns \ idle' : \E c \in InFlight' : lease'[c] = k ]_vars

\* A call was cancelled while it held a lease (its rows had arrived) and
\* every connection is available again.
C8_Witness ==
  \E c \in Calls :
    /\ outcome[c] = Cancelled
    /\ rows[c].some
    /\ idle = Conns

\* ---- C9: if DATABASE_URL is absent when the initializer of POOL reads it,
\* no Pool is constructed (then or later) and the call that triggered the
\* initialisation panics: it returns neither Ok nor Err, acquires no
\* connection and sends no query.
C9_AbsentFatal ==
  [][ /\ seen' = Absent =>
           (constructed' = 0 /\ poolInst' = None /\ idle' = {})
      /\ \A c \in Calls :
           (pc[c] = "Init" /\ pc'[c] # "Init" /\ seen' = Absent) =>
             /\ pc'[c] = "Failed"
             /\ outcome'[c] = Panic("DATABASE_URL must be set")
             /\ handle'[c] = None /\ lease'[c] = None
             /\ tries'[c] = 0 /\ sent'[c] = 0 /\ ~rows'[c].some ]_vars

\* The first use found DATABASE_URL absent and the caller panicked.
C9_Witness ==
  /\ seen = Absent
  /\ \E c \in Calls : outcome[c] = Panic("DATABASE_URL must be set")

\* ---- C10 (as amended): when get_conn() fails, select and execute return
\* Err(ConnectionFailed) without sending the query and without a lease, and
\* the gate is open again; when the pool is exhausted get_conn() does not
\* fail: the call stays suspended in acquisition until a connection is free.
AcquireFailed(c) ==
  /\ pc[c] = "GetConn"
  /\ pc'[c] # "GetConn"
  /\ lease'[c] = None
  /\ outcome'[c] # Cancelled

C10_ConnError ==
  [][ \A c \in Calls :
        /\ AcquireFailed(c) =>
             /\ pc'[c] = "Failed"
             /\ outcome'[c] = Err("ConnectionFailed")
             /\ idle' = idle
             /\ gate' # c
        /\ outcome'[c] = Err("ConnectionFailed") =>
             (pc'[c] = "Failed" /\ sent'[c] = 0 /\ lease'[c] = None)
        /\ (pc[c] = "GetConn" /\ idle = {} /\ outcome'[c] # Cancelled) =>
             (pc'[c] = "GetConn" /\ gate' = c) ]_vars

\* A call's acquisition failed and the call returned ConnectionFailed.
C10_Witness ==
  \E c \in Calls :
    /\ outcome[c] = Err("ConnectionFailed")
    /\ tries[c] = 1
    /\ gate # c

\* C10 as stated: a call whose get_conn() found the pool exhausted has
\* returned Err(ConnectionFailed).
C10_Original ==
  \A c \in Calls :
    (tries[c] = 1 /\ lease[c] = None /\ idle = {} /\ waiting[c]) =>
      outcome[c] = Err("ConnectionFailed")

\* ---- C11: no internal retry and no swallowed error: a call makes at most
\* one acquisition attempt and sends its query at most once; the step in
\* which a stage fails ends the call, and what the caller gets is the
\* failure of that stage (the error of get_conn, the error of the query, the
\* panic of from_row), never an Ok.
ExecFailed(c) ==
  /\ pc[c] = "Exec"
  /\ sent'[c] = sent[c] + 1
  /\ ~rows'[c].some

MapFailed(c) ==
  /\ pc[c] = "Map"
  /\ pc'[c] # "Map"
  /\ outcome'[c] # Cancelled
  /\ \E i \in 1..Len(rows[c].v) : ~Convertible(rows[c].v[i], input[c].T)

Executed(c) ==
  /\ pc[c] = "Exec"
  /\ sent'[c] = sent[c] + 1

C12_ExecuteUnit ==
  [][ \A c \in Calls : op'[c] = "execute" =>
        /\ pc'[c] # "Map"
        /\ outcome'[c] # Panic("Couldn't convert Row to the target type")
        /\ (outcome[c] = Pending /\ outcome'[c].kind = "Ok") =>
             /\ outcome'[c] = Ok(<<>>)
             /\ Executed(c) /\ lease[c] # None
             /\ rows'[c].some
             /\ ~Rejected(input[c].q, input[c].p)
        /\ Executed(c) =>
             /\ outcome'[c] = IF rows'[c].some
                              THEN Ok(<<>>) ELSE Err("QueryFailed")
             /\ Rejected(input[c].q, input[c].p) => ~rows'[c].some
        /\ AcquireFailed(c) => outcome'[c] = Err("ConnectionFailed") ]_vars

\* An execute whose query answered a row that a select of the same record
\* type could not have mapped has returned Ok(()).
C12_Witness ==
  \E c \in DataCalls :
    /\ op[c] = "execute"
    /\ pc[c] = "Released"
    /\ outcome[c] = Ok(<<>>)
    /\ rows[c].some /\ Len(rows[c].v) > 0
    /\ ~Convertible(rows[c].v[1], input[c].T)

\* ---- C13: no parameter state leaks between calls: the rows a call gets
\* are exactly the rows of the table that match its own query text and its
\* own parameters, whatever the other calls bound and whichever pooled
\* connection serves it; two calls with the same query and parameters get
\* the same rows, and a select by id returns records of that id only.
OwnRows(c) ==
  /\ \A i \in 1..Len(rows[c].v) :
       Matches(input[c].q, input[c].p, rows[c].v[i])
  /\ \A j \in 1..Len(Users) :
       Matches(input[c].q, input[c].p, Users[j]) =>
         \E i \in 1..Len(rows[c].v) : rows[c].v[i] = Users[j]

Holders(k) == {c \in Calls : lease[c] = k}
Leased == {k \in Conns : Holders(k) # {}}

C14_LeaseExclusive ==
  /\ \A k \in Conns :
       IF k \in idle THEN Holders(k) = {}
       ELSE constructed = 1 => Cardinality(Holders(k)) = 1
  /\ constructed = 0 => (idle = {} /\ Leased = {})
  /\ \A c, d \in Calls : (c # d /\ lease[c] # None) => lease[c] # lease[d]
  /\ \A c \in Calls : lease[c] # None =>
       (lease[c] \in Conns /\ pc[c] \in {"Exec", "Map"})
  /\ \A c \in Calls : c \notin InFlight => lease[c] = None
  /\ Cardinality(Leased) <= MaxConns

\* The pool is exhausted: every connection is leased, each to a call of its
\* own, while one more call is in flight without a lease.
C14_Witness ==
  /\ idle = {}
  /\ Cardinality(Leased) = MaxConns
  /\ \E c \in Calls : pc[c] = "GetConn" /\ lease[c] = None

\* ---- C15: the initializer classifies DATABASE_URL in this order: absent
\* fails as missing, a value that is not a URL fails as malformed, a URL
\* without a host fails as missing host, and no Pool is constructed in these
\* cases; otherwise the configuration has the empty password when the URL
\* has none and, as database name, the URL path without its leading '/'
\* characters, all of them.
NotUrl(s) == IndexOf(s, ":") <= 1
HostLess(s) ==
  LET colon == IndexOf(s, ":")
  IN ~(Len(s) >= colon + 3 /\ s[colon + 1] = "/" /\ s[colon + 2] = "/"
       /\ s[colon + 3] # "/")
HasPassword(s) ==
  LET at == IndexOf(s, "@")
  IN at > 0 /\ \E i \in (IndexOf(s, ":") + 1)..(at - 1) : s[i] = ":"

Class(e) ==
  IF ~e.set THEN "DATABASE_URL must be set"
  ELSE IF NotUrl(e.val) THEN "Failed to parse DATABASE_URL"
  ELSE IF HostLess(e.val) THEN "DATABASE_URL must have a host"
  ELSE ""

Slashes(n) == [i \in 1..n |-> "/"]

\* What every initialization does, except for the database name.
Classified(c) ==
  IF Class(env) # ""
  THEN /\ outcome'[c] = Panic(Class(env))
       /\ pc'[c] = "Failed"
       /\ constructed' = 0 /\ poolInst' = None /\ config' = NoConfig
  ELSE /\ constructed' = 1 /\ poolInst' # None
       /\ outcome'[c] = Pending
       /\ ~HasPassword(env.val) => config'.password = <<>>
       /\ config'.host # <<>>

C15_Classify ==
  [][ \A c \in Calls : pc[c] = "Init" /\ pc'[c] # "Init" =>
        /\ Classified(c)
        /\ Class(env) = "" =>
             LET path == UrlParse(env.val).path
             IN /\ \E n \in 0..Len(path) :
                     path = Slashes(n) \o config'.database
                /\ config'.database # <<>> => Head(config'.database) # "/"
    ]_vars

\* The pool was initialized from a URL without credentials whose path
\* starts with two slashes.
C15_Witness ==
  /\ once = "complete"
  /\ seen = Value(UrlSlashes)
  /\ config.password = <<>>
  /\ config.database = <<"d">>

\* The claim as stated: the database name is the path without one leading '/'.
C15_Original ==
  [][ \A c \in Calls : pc[c] = "Init" /\ pc'[c] # "Init" =>
        /\ Classified(c)
        /\ Class(env) = "" =>
             LET path == UrlParse(env.val).path
             IN config'.database =
                  IF path # <<>> /\ Head(path) = "/" THEN Tail(path) ELSE path
    ]_vars

\* ---- C16: the gate is released on every exit path of the acquisition: a
\* call holds the gate only while it is inside get_conn; the step in which
\* it gets its lease, fails to connect, or is cancelled opens the gate, so
\* that a failed acquisition leaves the gate free for the next caller; at
\* most one call is inside get_conn at any time.
InGetConn == {c \in Calls : pc[c] = "GetConn"}

C16_GateReleased ==
  [][ /\ \A c \in Calls : (gate' = c) <=> (pc'[c] = "GetConn")
      /\ \A c \in Calls : gate' = c => Stage(c) = "Acquiring"
      /\ \A c \in Calls :
           (pc[c] = "GetConn" /\ pc'[c] # "GetConn") => gate' = None
      /\ \A c \in Calls : AcquireFailed(c) =>
           /\ gate = c /\ gate' = None
           /\ pc'[c] = "Failed"
      /\ Cardinality(InGetConn') <= 1 ]_vars

\* A call failed to connect, and a later caller holds the gate and is
\* inside get_conn.
C16_Witness ==
  \E c, d \in Calls :
    /\ c # d
    /\ pc[c] = "Failed" /\ outcome[c] = Err("ConnectionFailed")
    /\ pc[d] = "GetConn" /\ gate = d

\* ---- C17: no deadlock under pool exhaustion: the call that waits for a
\* free connection keeps the gate, but a call that ends gives its connection
\* back without the gate; under fair scheduling, with more calls than
\* connections, every call that is under way eventually completes, and it
\* obtains a lease on the way unless its acquisition fails with a
\* connection error.
C17_NoDeadlock ==
  /\ \A c \in Calls : (pc[c] # "Idle") ~> (pc[c] \in Terminal)
  /\ [][ \A c \in Calls :
            /\ (pc[c] # "Released" /\ pc'[c] = "Released") => lease[c] # None
            /\ (waiting[c] /\ ~waiting'[c]) =>
                 (lease'[c] # None \/ pc'[c] = "Failed")
            /\ (pc[c] \in {"Exec", "Map"} /\ pc'[c] \in Terminal) =>
                 (lease[c] \in idle' /\ gate' = gate) ]_vars

\* More calls than connections: the pool is exhausted by calls that run
\* their queries, and a further call waits for a connection, holding the gate.
C17_Witness ==
  \E c \in Calls :
    /\ waiting[c] /\ gate = c
    /\ \A d \in Calls \ {c} : pc[d] \in {"Exec", "Map"} /\ lease[d] # None

\* The claim as stated: every call eventually obtains a lease.
C17_Original ==
  \A c \in Calls : (pc[c] = "Deref") ~> (lease[c] # None)

\* ---- C18: the initialization is attempted at most once, also when it
\* fails: DATABASE_URL is read in the one run of the initializer only; once
\* that run has failed, every later call fails fatally at POOL without
\* reading the variable again, and no Pool is ever constructed; once it has
\* succeeded, the Pool and its configuration never change, whatever
\* DATABASE_URL is set to afterwards.
C18_InitAttemptedOnce ==
  [][ /\ seen' # seen => (seen = NotRead /\ once = "running" /\ seen' = env)
      /\ once = "poisoned" =>
           /\ once' = "poisoned"
           /\ constructed' = 0 /\ poolInst' = None /\ idle' = {}
           /\ \A c \in Calls : (pc[c] = "Deref" /\ pc'[c] # "Deref") =>
                (pc'[c] = "Failed" /\ outcome'[c].kind = "Panic")
      /\ once = "complete" =>
           /\ once' = "complete"
           /\ constructed' = 1
           /\ poolInst' = poolInst /\ config' = config
           /\ config = Opts(UrlParse(seen.val))
           /\ \A c \in Calls : (pc[c] = "Deref" /\ pc'[c] # "Deref") =>
                (pc'[c] = "Lock" /\ handle'[c] = poolInst)
      /\ \A c \in Calls : pc'[c] = "Init" => pc[c] \in {"Deref", "Init"}
      /\ once # "incomplete" => once' # "incomplete"
      /\ (once = "running" /\ once' # "running") =>
           \E c \in Calls : pc[c] = "Init" /\ pc'[c] # "Init" ]_vars

\* The initialization failed; DATABASE_URL was then set to a complete URL,
\* and a later call still failed fatally at POOL, with no Pool constructed.
C18_Witness ==
  /\ once = "poisoned"
  /\ env = Value(UrlFull) /\ seen # env
  /\ constructed = 0
  /\ \E c \in Calls :
       outcome[c] = Panic("Once instance has previously been poisoned")

====
